---- MODULE Spec2Model ----
(***************************************************************************)
(* Image-analysis lifecycle (routes/images.js, routes/ai.js) and the       *)
(* chatbot session pipeline (chatbot routes bundled in server.js) of the   *)
(* agri-ai backend.  Every route handler is split at its awaits: one       *)
(* action is the code that runs between two awaits, so overlapping         *)
(* requests interleave exactly where the event loop can interleave them.   *)
(***************************************************************************)
EXTENDS Integers, Sequences, FiniteSets, TLC

\* ------------------------------------------------------------------ bounds
MaxRecords == 2
MaxReqs == 2
MaxCalls == 3

Users == {"u1", "u2"}
Ids == 1..MaxRecords
Slots == 1..MaxReqs

\* Optional values: absent is the empty sequence, present is a 1-tuple.
None == <<>>
Some(x) == <<x>>
Val(o) == o[1]

\* ------------------------------------------------------------- variables
VARIABLES
    records,         \* ImageAnalysis collection: Ids -> optional document
    files,           \* ids whose uploaded binary exists on disk
    nextId,          \* sequence number of the next upload: names its file and its _id
    model,           \* ai.js module global: the loaded model handle (or absent)
    modelLoading,    \* ai.js module global
    reqs,            \* in-flight analyze requests, one per slot
    classifierCalls, \* number of analyzeImageWithAI invocations
    resp,            \* the HTTP response written by the last step (or none)
    sessions,        \* ChatSession collection
    nextSid,         \* next session _id
    chats,           \* in-flight /chat requests
    providerCalls,   \* number of openai.chat.completions.create invocations
    apiKey,          \* whether process.env.OPENAI_API_KEY is set
    chatResp,        \* the HTTP response written by the last chat step
    query,           \* the argument of the last getFallbackResponse call
    answer           \* what that call returned ("" before the first call)

imgVars == <<records, files, nextId, model, modelLoading, reqs, classifierCalls, resp>>
chatVars == <<sessions, nextSid, chats, providerCalls, apiKey, chatResp>>
fbVars == <<query, answer>>
vars == <<records, files, nextId, model, modelLoading, reqs, classifierCalls, resp,
          sessions, nextSid, chats, providerCalls, apiKey, chatResp, query, answer>>

\* ------------------------------------------------- the ImageAnalysis store
\* Schema defaults of models/ImageAnalysis: a new document is pending and
\* carries neither an analysis payload nor an error message.
DefaultStatus == "pending"
DefaultAnalysis == None
DefaultErrorMessage == None

\* The document ImageAnalysis.create is handed by POST /upload: owner and
\* the stored binary; every other field is left to the schema defaults.
NewRecord_mut(u, id) ==
    [user |-> u, status |-> "processing", analysis |-> DefaultAnalysis,
     processingTime |-> None, errorMessage |-> DefaultErrorMessage,
     isPublic |-> FALSE, sharedWith |-> {}, path |-> id, location |-> <<None, None>>,
     feedback |-> None]

NewRecord(u, id) ==
    [user |-> u, status |-> DefaultStatus, analysis |-> DefaultAnalysis,
     processingTime |-> None, errorMessage |-> DefaultErrorMessage,
     isPublic |-> FALSE, sharedWith |-> {}, path |-> id, location |-> <<None, None>>,
     feedback |-> None]

Stored(id) == records[id] # None
Rec(id) == Val(records[id])

\* document.save(): only the paths whose in-memory value differs from the
\* value last synchronised with the store are written ($set / $addToSet).
SaveDelta_mut(stored, clean, mem) ==
    [f \in DOMAIN stored |->
        IF f = "sharedWith" THEN stored[f] \cup (mem[f] \ clean[f])
        ELSE IF mem[f] # clean[f] /\ stored[f] = clean[f] THEN mem[f] ELSE stored[f]]

SaveDelta(stored, clean, mem) ==
    [f \in DOMAIN stored |->
        IF f = "sharedWith" THEN stored[f] \cup (mem[f] \ clean[f])
        ELSE IF mem[f] # clean[f] THEN mem[f] ELSE stored[f]]

\* ------------------------------------------------------ request bookkeeping
IdleReq == [pc |-> "idle", user |-> "-", id |-> 0,
            doc |-> None, out |-> None, err |-> None, mem |-> None]

NoResp == [op |-> "none", user |-> "-", id |-> 0, code |-> 0, kind |-> "none",
           body |-> None]

Resp(op, u, id, code, kind, body) ==
    [op |-> op, user |-> u, id |-> id, code |-> code, kind |-> kind, body |-> body]

\* A new request takes the lowest free slot.
FreeSlot(r) == reqs[r].pc = "idle" /\ \A q \in Slots : q < r => reqs[q].pc # "idle"

Inflight(r, pc) == reqs[r].pc = pc

\* ------------------------------------------------------------ POST /upload
\* kind: "ok", "nofile" (no multipart file), "badtype" (fileFilter rejects),
\* "createfail" (ImageAnalysis.create throws after multer stored the file).
UploadKinds == {"ok", "nofile", "badtype", "createfail"}

\* Request coordinates: absent (or an empty field), or a number.  A profile
\* is the user's location.coordinates, <<longitude, latitude>>, or absent
\* when the user document has no location.
Coordinates == {None, Some(7)}
Profiles == {None, Some(<<0, 0>>), Some(<<36, 1>>), Some(<<0, 51>>)}

\* "Priority 1": latitude && longitude
ManualLocation(lat, lng) == lat # None /\ lng # None

\* "Priority 2": useProfileLocation === 'true' &&
\* user?.location?.coordinates?.[0] !== 0 (undefined !== 0 holds)
ProfileBranch(useProfile, profile) ==
    useProfile /\ (profile = None \/ Val(profile)[1] # 0)

\* The profile branch reads user.location.coordinates[1]: a TypeError when
\* the user has no location.
LocationThrows(lat, lng, useProfile, profile) ==
    /\ ~ ManualLocation(lat, lng)
    /\ ProfileBranch(useProfile, profile)
    /\ profile = None

\* finalLocation as <<latitude, longitude>>, each a number or null.
FinalLocation(lat, lng, useProfile, profile) ==
    IF ManualLocation(lat, lng) THEN <<lat, lng>>
    ELSE IF ProfileBranch(useProfile, profile)
         THEN <<Some(Val(profile)[2]), Some(Val(profile)[1])>>
         ELSE <<None, None>>

Upload(u, kind, lat, lng, useProfile, profile) ==
    /\ UNCHANGED <<chatVars, fbVars, model, modelLoading, reqs, classifierCalls>>
    /\ CASE kind = "badtype" ->
              /\ resp' = Resp("upload", u, 0, 500, "filter_error", None)
              /\ UNCHANGED <<records, files, nextId>>
         [] kind = "nofile" ->
              /\ resp' = Resp("upload", u, 0, 400, "no_file", None)
              /\ UNCHANGED <<records, files, nextId>>
         [] kind = "createfail" ->
              \* the stored file is unlinked again in the catch block
              /\ resp' = Resp("upload", u, 0, 500, "create_error", None)
              /\ UNCHANGED <<records, files, nextId>>
         [] kind = "ok" /\ LocationThrows(lat, lng, useProfile, profile) ->
              \* caught like a failed create: the file is unlinked
              /\ resp' = Resp("upload", u, 0, 500, "location_error", None)
              /\ UNCHANGED <<records, files, nextId>>
         [] kind = "ok" /\ ~ LocationThrows(lat, lng, useProfile, profile) ->
              LET created == [NewRecord(u, nextId) EXCEPT
                                 !.location = FinalLocation(lat, lng, useProfile, profile)]
              IN
              /\ nextId <= MaxRecords
              /\ records' = [records EXCEPT ![nextId] = Some(created)]
              /\ files' = files \cup {nextId}
              /\ nextId' = nextId + 1
              /\ resp' = Resp("upload", u, nextId, 200, "uploaded", Some(created))

\* The second definition of POST /upload: each coordinate is parsed on its
\* own, the profile is not read, and the catch block only forwards the error.
SecondLocation(lat, lng) == <<lat, lng>>

UploadSecond(u, kind, lat, lng) ==
    /\ UNCHANGED <<chatVars, fbVars, model, modelLoading, reqs, classifierCalls>>
    /\ CASE kind = "badtype" ->
              /\ resp' = Resp("upload", u, 0, 500, "filter_error", None)
              /\ UNCHANGED <<records, files, nextId>>
         [] kind = "nofile" ->
              /\ resp' = Resp("upload", u, 0, 400, "no_file", None)
              /\ UNCHANGED <<records, files, nextId>>
         [] kind = "createfail" ->
              \* the file multer stored stays on disk
              /\ nextId <= MaxRecords
              /\ files' = files \cup {nextId}
              /\ nextId' = nextId + 1
              /\ resp' = Resp("upload", u, 0, 500, "create_error", None)
              /\ UNCHANGED records
         [] kind = "ok" ->
              LET created == [NewRecord(u, nextId) EXCEPT
                                 !.location = SecondLocation(lat, lng)]
              IN
              /\ nextId <= MaxRecords
              /\ records' = [records EXCEPT ![nextId] = Some(created)]
              /\ files' = files \cup {nextId}
              /\ nextId' = nextId + 1
              /\ resp' = Resp("upload", u, nextId, 200, "uploaded", Some(created))

\* ------------------------------------------------ POST /analyze/:analysisId
\* findOne({_id, user}): the document when it exists and the caller owns it.
FindOwned_mut(u, id) ==
    IF Stored(id) THEN records[id] ELSE None

FindOwned(u, id) ==
    IF Stored(id) /\ Rec(id).user = u THEN records[id] ELSE None

\* "Check if already processed"
AlreadyProcessed_mut(doc) == doc.status = "failed"

AlreadyProcessed_mut2(doc) == doc.status \in {"completed", "failed"}

AlreadyProcessed(doc) == doc.status = "completed"

\* Analyze requests that will still call analyzeImageWithAI.
PendingCalls == Cardinality({q \in Slots : Inflight(q, "save_processing")})

AnalyzeFind(r, u, id) ==
    /\ FreeSlot(r)
    /\ UNCHANGED <<chatVars, fbVars, records, files, nextId, model, modelLoading, classifierCalls>>
    /\ LET found == FindOwned(u, id) IN
       IF found = None THEN
            /\ resp' = Resp("analyze", u, id, 404, "not_found", None)
            /\ UNCHANGED reqs
       ELSE IF AlreadyProcessed(Val(found)) THEN
            /\ resp' = Resp("analyze", u, id, 200, "already_completed", found)
            /\ UNCHANGED reqs
       ELSE
            /\ classifierCalls + PendingCalls < MaxCalls
            /\ reqs' = [reqs EXCEPT ![r] = [IdleReq EXCEPT !.pc = "save_processing",
                                                           !.user = u, !.id = id,
                                                           !.doc = found]]
            /\ resp' = NoResp

\* loadModel's guard: "if (model || modelLoading) return model"
LoadModelReturnsEarly_mut == model # None

LoadModelReturnsEarly == model # None \/ modelLoading

\* analyzeImageWithAI after the model handle is there: readFileSync throws
\* when the binary is gone, otherwise the prediction is awaited.
AfterModel(q) ==
    IF q.id \in files THEN [q EXCEPT !.pc = "predict"]
    ELSE [q EXCEPT !.pc = "save_failed", !.err = Some("ENOENT")]

\* "Update status to processing"
ProcessingDoc_mut(clean) == clean

ProcessingDoc(clean) == [clean EXCEPT !.status = "processing"]

\* "Update status to processing", save, then the synchronous head of
\* analyzeImageWithAI / loadModel.
AnalyzeSaveProcessing(r) ==
    /\ Inflight(r, "save_processing")
    /\ UNCHANGED <<chatVars, fbVars, files, nextId, model>>
    /\ LET q == reqs[r]
           clean == Val(q.doc)
           mem == ProcessingDoc(clean)
           q2 == [q EXCEPT !.doc = Some(mem)]
       IN
       IF ~Stored(q.id) THEN
            \* save() of a deleted document rejects; outer catch -> next(error)
            /\ resp' = Resp("analyze", q.user, q.id, 500, "store_error", None)
            /\ reqs' = [reqs EXCEPT ![r] = IdleReq]
            /\ UNCHANGED <<records, modelLoading, classifierCalls>>
       ELSE
            /\ records' = [records EXCEPT ![q.id] = Some(SaveDelta(Rec(q.id), clean, mem))]
            /\ classifierCalls' = classifierCalls + 1
            /\ resp' = NoResp
            /\ IF LoadModelReturnsEarly THEN
                    /\ UNCHANGED modelLoading
                    /\ reqs' = [reqs EXCEPT ![r] =
                                  IF model # None THEN AfterModel(q2)
                                  ELSE [q2 EXCEPT !.pc = "save_failed",
                                                  !.err = Some("AI model not available")]]
               ELSE
                    /\ modelLoading' = TRUE
                    /\ reqs' = [reqs EXCEPT ![r] = [q2 EXCEPT !.pc = "loading"]]

\* tf.loadLayersModel settles.
LoadModelSettles_mut(r, ok) ==
    /\ Inflight(r, "loading")
    /\ UNCHANGED <<chatVars, fbVars, records, files, nextId, classifierCalls>>
    /\ resp' = NoResp
    /\ modelLoading' = ~ ok
    /\ IF ok THEN
            /\ model' = Some("mobilenet")
            /\ reqs' = [reqs EXCEPT ![r] = AfterModel(reqs[r])]
       ELSE
            /\ UNCHANGED model
            /\ reqs' = [reqs EXCEPT ![r] = [reqs[r] EXCEPT !.pc = "save_failed",
                                                          !.err = Some("load failed")]]

LoadModelSettles(r, ok) ==
    /\ Inflight(r, "loading")
    /\ UNCHANGED <<chatVars, fbVars, records, files, nextId, classifierCalls>>
    /\ resp' = NoResp
    /\ modelLoading' = FALSE
    /\ IF ok THEN
            /\ model' = Some("mobilenet")
            /\ reqs' = [reqs EXCEPT ![r] = AfterModel(reqs[r])]
       ELSE
            /\ UNCHANGED model
            /\ reqs' = [reqs EXCEPT ![r] = [reqs[r] EXCEPT !.pc = "save_failed",
                                                          !.err = Some("load failed")]]

\* convertToAgriculturalAnalysis: healthScore is floor(random*40)+60.
ScoreSamples == {60, 95}

Condition(score) ==
    IF score > 90 THEN "excellent"
    ELSE IF score > 75 THEN "good"
    ELSE IF score > 50 THEN "fair"
    ELSE "poor"

ConvertToAgriculturalAnalysis(score) ==
    [healthScore |-> score, condition |-> Condition(score)]

\* model.predict(...).data() settles: a payload, or it throws.
Predict(r, ok, score) ==
    /\ Inflight(r, "predict")
    /\ UNCHANGED <<chatVars, fbVars, records, files, nextId, model, modelLoading, classifierCalls>>
    /\ resp' = NoResp
    /\ reqs' = [reqs EXCEPT ![r] =
                  IF ok THEN [reqs[r] EXCEPT !.pc = "save_completed",
                                             !.out = Some(ConvertToAgriculturalAnalysis(score))]
                  ELSE [reqs[r] EXCEPT !.pc = "save_failed",
                                       !.err = Some("predict failed")]]

\* Elapsed seconds measured around the classifier call.
ElapsedSample == 1

\* "Update analysis with results"
CompletedDoc(clean, analysis) ==
    [clean EXCEPT !.analysis = Some(analysis),
                  !.processingTime = Some(ElapsedSample),
                  !.status = "completed"]

AnalyzeSaveCompleted(r) ==
    /\ Inflight(r, "save_completed")
    /\ UNCHANGED <<chatVars, fbVars, files, nextId, model, modelLoading, classifierCalls>>
    /\ LET q == reqs[r]
           clean == Val(q.doc)
           mem == CompletedDoc(clean, Val(q.out))
       IN
       IF ~Stored(q.id) THEN
            \* the rejected save is thrown inside the inner try
            /\ reqs' = [reqs EXCEPT ![r] = [q EXCEPT !.pc = "save_failed",
                                                     !.err = Some("No document found")]]
            /\ resp' = NoResp
            /\ UNCHANGED records
       ELSE
            /\ records' = [records EXCEPT ![q.id] = Some(SaveDelta(Rec(q.id), clean, mem))]
            /\ reqs' = [reqs EXCEPT ![r] = IdleReq]
            /\ resp' = Resp("analyze", q.user, q.id, 200, "analyzed", Some(mem))

\* catch (aiError): "Update status to failed"
FailedDoc_mut(clean, msg) == [clean EXCEPT !.errorMessage = Some(msg)]

FailedDoc_mut2(clean, msg) ==
    [clean EXCEPT !.status = "pending", !.errorMessage = Some(msg)]

FailedDoc(clean, msg) ==
    [clean EXCEPT !.status = "failed", !.errorMessage = Some(msg)]

AnalyzeSaveFailed(r) ==
    /\ Inflight(r, "save_failed")
    /\ UNCHANGED <<chatVars, fbVars, files, nextId, model, modelLoading, classifierCalls>>
    /\ LET q == reqs[r]
           clean == Val(q.doc)
           mem == FailedDoc(clean, Val(q.err))
       IN
       /\ reqs' = [reqs EXCEPT ![r] = IdleReq]
       /\ IF ~Stored(q.id) THEN
            /\ resp' = Resp("analyze", q.user, q.id, 500, "store_error", None)
            /\ UNCHANGED records
          ELSE
            /\ records' = [records EXCEPT ![q.id] = Some(SaveDelta(Rec(q.id), clean, mem))]
            /\ resp' = Resp("analyze", q.user, q.id, 500, "ai_failed", Some(mem))

\* ------------------------------------------------------ GET /analyses/:id
\* findOne({_id, $or: [{user}, {sharedWith}, {isPublic: true}]})
CanRead_mut(u, rec) == rec.user = u \/ u \in rec.sharedWith

CanRead(u, rec) == rec.user = u \/ u \in rec.sharedWith \/ rec.isPublic

GetAnalysis(u, id) ==
    /\ UNCHANGED <<chatVars, fbVars, records, files, nextId, model, modelLoading, reqs, classifierCalls>>
    /\ resp' = IF Stored(id) /\ CanRead(u, Rec(id))
               THEN Resp("get", u, id, 200, "found", records[id])
               ELSE Resp("get", u, id, 404, "not_found", None)

\* ------------------------------------------------ POST /analyses/:id/share
\* The handler sets isPublic on the in-memory document and saves only through
\* shareWith, which it calls when userIds is a non-empty list.
CallsShareWith(userIds) == userIds # {}

\* ImageAnalysis.methods.shareWith: adds the ids to sharedWith and saves.
ShareWithDoc(doc, userIds) == [doc EXCEPT !.sharedWith = @ \cup userIds]

Share(u, id, userIds, makePublic) ==
    /\ UNCHANGED <<chatVars, fbVars, files, nextId, model, modelLoading, reqs, classifierCalls>>
    /\ LET found == FindOwned(u, id) IN
       IF found = None THEN
            /\ resp' = Resp("share", u, id, 404, "not_found", None)
            /\ UNCHANGED records
       ELSE
            LET clean == Val(found)
                mem == [clean EXCEPT !.isPublic = IF makePublic THEN TRUE ELSE @]
            IN
            /\ resp' = Resp("share", u, id, 200,
                            IF makePublic THEN "shared_public" ELSE "shared", None)
            /\ IF CallsShareWith(userIds) THEN
                    records' = [records EXCEPT ![id] =
                        Some(SaveDelta(Rec(id), clean, ShareWithDoc(mem, userIds)))]
               ELSE UNCHANGED records

\* The share handler with the await of shareWith's save made visible: the
\* request holds the document it loaded and the document as changed in
\* memory until the save is written.
ShareFind(r, u, id, userIds, makePublic) ==
    /\ FreeSlot(r)
    /\ UNCHANGED <<chatVars, fbVars, records, files, nextId, model, modelLoading, classifierCalls>>
    /\ LET found == FindOwned(u, id) IN
       IF found = None THEN
            /\ resp' = Resp("share", u, id, 404, "not_found", None)
            /\ UNCHANGED reqs
       ELSE IF ~ CallsShareWith(userIds) THEN
            /\ resp' = Resp("share", u, id, 200,
                            IF makePublic THEN "shared_public" ELSE "shared", None)
            /\ UNCHANGED reqs
       ELSE
            LET clean == Val(found)
                mem == [clean EXCEPT !.isPublic = IF makePublic THEN TRUE ELSE @]
            IN
            /\ reqs' = [reqs EXCEPT ![r] =
                          [IdleReq EXCEPT !.pc = "share_save", !.user = u, !.id = id,
                                          !.doc = found,
                                          !.mem = Some(ShareWithDoc(mem, userIds))]]
            /\ resp' = NoResp

\* The save inside shareWith / addFeedback, then the 200.
AuxSaved(r, op, kind) ==
    /\ UNCHANGED <<chatVars, fbVars, files, nextId, model, modelLoading, classifierCalls>>
    /\ reqs' = [reqs EXCEPT ![r] = IdleReq]
    /\ LET q == reqs[r] IN
       IF ~ Stored(q.id) THEN
            /\ resp' = Resp(op, q.user, q.id, 500, "store_error", None)
            /\ UNCHANGED records
       ELSE
            /\ records' = [records EXCEPT ![q.id] =
                              Some(SaveDelta(Rec(q.id), Val(q.doc), Val(q.mem)))]
            /\ resp' = Resp(op, q.user, q.id, 200, kind, None)

ShareSave(r) ==
    /\ Inflight(r, "share_save")
    /\ AuxSaved(r, "share",
                IF Val(reqs[r].mem).isPublic /\ ~ Val(reqs[r].doc).isPublic
                THEN "shared_public" ELSE "shared")

\* ------------------------------------------- POST /analyses/:id/feedback
\* findOne({_id, $or: [{user}, {sharedWith}]})
CanGiveFeedback(u, rec) == rec.user = u \/ u \in rec.sharedWith

Ratings == {5}

\* ImageAnalysis.methods.addFeedback: sets the feedback and saves.
AddFeedbackDoc_mut(doc, rating) ==
    [doc EXCEPT !.feedback = Some(rating), !.status = "completed"]

AddFeedbackDoc(doc, rating) == [doc EXCEPT !.feedback = Some(rating)]

FeedbackFind(r, u, id, rating) ==
    /\ FreeSlot(r)
    /\ UNCHANGED <<chatVars, fbVars, records, files, nextId, model, modelLoading, classifierCalls>>
    /\ IF ~ (Stored(id) /\ CanGiveFeedback(u, Rec(id))) THEN
            /\ resp' = Resp("feedback", u, id, 404, "not_found", None)
            /\ UNCHANGED reqs
       ELSE
            /\ reqs' = [reqs EXCEPT ![r] =
                          [IdleReq EXCEPT !.pc = "feedback_save", !.user = u, !.id = id,
                                          !.doc = records[id],
                                          !.mem = Some(AddFeedbackDoc(Rec(id), rating))]]
            /\ resp' = NoResp

FeedbackSave(r) ==
    /\ Inflight(r, "feedback_save")
    /\ AuxSaved(r, "feedback", "feedback_saved")

\* -------------------------------------------------- DELETE /analyses/:id
Delete_mut(u, id) ==
    /\ UNCHANGED <<chatVars, fbVars, nextId, model, modelLoading, reqs, classifierCalls>>
    /\ LET found == FindOwned(u, id) IN
       IF found = None THEN
            /\ resp' = Resp("delete", u, id, 404, "not_found", None)
            /\ UNCHANGED <<records, files>>
       ELSE
            /\ files' = files
            /\ records' = [records EXCEPT ![id] = None]
            /\ resp' = Resp("delete", u, id, 200, "deleted", None)

Delete(u, id) ==
    /\ UNCHANGED <<chatVars, fbVars, nextId, model, modelLoading, reqs, classifierCalls>>
    /\ LET found == FindOwned(u, id) IN
       IF found = None THEN
            /\ resp' = Resp("delete", u, id, 404, "not_found", None)
            /\ UNCHANGED <<records, files>>
       ELSE
            \* fs.unlinkSync of the original image, then analysis.deleteOne()
            /\ files' = files \ {Val(found).path}
            /\ records' = [records EXCEPT ![id] = None]
            /\ resp' = Resp("delete", u, id, 200, "deleted", None)

\* The delete handler when analysis.deleteOne() rejects: the file was
\* unlinked before the await, the document stays.
DeleteRejected(u, id) ==
    /\ UNCHANGED <<chatVars, fbVars, records, nextId, model, modelLoading, reqs, classifierCalls>>
    /\ LET found == FindOwned(u, id) IN
       IF found = None THEN
            /\ resp' = Resp("delete", u, id, 404, "not_found", None)
            /\ UNCHANGED files
       ELSE
            /\ files' = files \ {Val(found).path}
            /\ resp' = Resp("delete", u, id, 500, "store_error", None)

\* =================================================================== chat
\* Texts are sequences of characters, so that toLowerCase and includes are
\* computed, not assumed.
UpperCase == <<"A", "B", "C", "D", "E", "F", "G", "H", "I", "J", "K", "L", "M",
               "N", "O", "P", "Q", "R", "S", "T", "U", "V", "W", "X", "Y", "Z">>
LowerCase == <<"a", "b", "c", "d", "e", "f", "g", "h", "i", "j", "k", "l", "m",
               "n", "o", "p", "q", "r", "s", "t", "u", "v", "w", "x", "y", "z">>

ToLowerChar(c) ==
    IF \E i \in 1..Len(UpperCase) : UpperCase[i] = c
    THEN LowerCase[CHOOSE i \in 1..Len(UpperCase) : UpperCase[i] = c]
    ELSE c

ToLowerCase(t) == [i \in 1..Len(t) |-> ToLowerChar(t[i])]

\* String.prototype.includes
Includes(t, k) ==
    \E i \in 0..(Len(t) - Len(k)) : \A j \in 1..Len(k) : t[i + j] = k[j]

\* AGRICULTURAL_KNOWLEDGE, in the order Object.entries walks it.  A canned
\* response is named by its category and its position in the list.
AGRICULTURAL_KNOWLEDGE == <<
    [category |-> "soil_health",
     keywords |-> <<
            <<"s", "o", "i", "l">>,
            <<"f", "e", "r", "t", "i", "l", "i", "z", "e", "r">>,
            <<"n", "u", "t", "r", "i", "e", "n", "t", "s">>,
            <<"p", "h">>,
            <<"c", "o", "m", "p", "o", "s", "t">>,
            <<"m", "a", "n", "u", "r", "e">> >>,
     responses |-> <<"soil_health#1", "soil_health#2", "soil_health#3", "soil_health#4">>],
    [category |-> "pest_control",
     keywords |-> <<
            <<"p", "e", "s", "t">>,
            <<"i", "n", "s", "e", "c", "t">>,
            <<"b", "u", "g">>,
            <<"w", "o", "r", "m">>,
            <<"d", "i", "s", "e", "a", "s", "e">>,
            <<"f", "u", "n", "g", "u", "s">>,
            <<"b", "a", "c", "t", "e", "r", "i", "a">> >>,
     responses |-> <<"pest_control#1", "pest_control#2", "pest_control#3", "pest_control#4">>],
    [category |-> "water_management",
     keywords |-> <<
            <<"w", "a", "t", "e", "r">>,
            <<"i", "r", "r", "i", "g", "a", "t", "i", "o", "n">>,
            <<"d", "r", "a", "i", "n", "a", "g", "e">>,
            <<"m", "o", "i", "s", "t", "u", "r", "e">>,
            <<"d", "r", "o", "u", "g", "h", "t">>,
            <<"f", "l", "o", "o", "d">> >>,
     responses |-> <<"water_management#1", "water_management#2", "water_management#3", "water_management#4">>],
    [category |-> "crop_selection",
     keywords |-> <<
            <<"c", "r", "o", "p">>,
            <<"p", "l", "a", "n", "t">>,
            <<"v", "a", "r", "i", "e", "t", "y">>,
            <<"s", "e", "e", "d">>,
            <<"s", "o", "w", "i", "n", "g">>,
            <<"p", "l", "a", "n", "t", "i", "n", "g">>,
            <<"h", "a", "r", "v", "e", "s", "t">> >>,
     responses |-> <<"crop_selection#1", "crop_selection#2", "crop_selection#3", "crop_selection#4">>],
    [category |-> "weather_climate",
     keywords |-> <<
            <<"w", "e", "a", "t", "h", "e", "r">>,
            <<"c", "l", "i", "m", "a", "t", "e">>,
            <<"s", "e", "a", "s", "o", "n">>,
            <<"t", "e", "m", "p", "e", "r", "a", "t", "u", "r", "e">>,
            <<"r", "a", "i", "n">>,
            <<"f", "r", "o", "s", "t">> >>,
     responses |-> <<"weather_climate#1", "weather_climate#2", "weather_climate#3", "weather_climate#4">>] >>

DefaultFallback == "default"

\* getFallbackResponse: every string the function can return for the query
\* (the index into responses is floor(random * length)).
GetFallbackResponse_mut(q) ==
    LET lowerQuery == ToLowerCase(q)
        Match(c) == \E n \in 1..Len(AGRICULTURAL_KNOWLEDGE[c].keywords) :
                        Includes(lowerQuery, AGRICULTURAL_KNOWLEDGE[c].keywords[n])
        matching == {c \in 1..Len(AGRICULTURAL_KNOWLEDGE) : Match(c)}
    IN IF matching = {} THEN {DefaultFallback}
       ELSE LET last == CHOOSE c \in matching : \A d \in matching : c >= d
            IN {AGRICULTURAL_KNOWLEDGE[last].responses[n] :
                    n \in 1..Len(AGRICULTURAL_KNOWLEDGE[last].responses)}

GetFallbackResponse(q) ==
    LET lowerQuery == ToLowerCase(q)
        Match(c) == \E n \in 1..Len(AGRICULTURAL_KNOWLEDGE[c].keywords) :
                        Includes(lowerQuery, AGRICULTURAL_KNOWLEDGE[c].keywords[n])
        matching == {c \in 1..Len(AGRICULTURAL_KNOWLEDGE) : Match(c)}
    IN IF matching = {} THEN {DefaultFallback}
       ELSE LET first == CHOOSE c \in matching : \A d \in matching : c <= d
            IN {AGRICULTURAL_KNOWLEDGE[first].responses[n] :
                    n \in 1..Len(AGRICULTURAL_KNOWLEDGE[first].responses)}

\* A call of getFallbackResponse on its own: the queries are two words of
\* Words written one after the other.
Words == {<<>>, <<"S", "o", "i", "l">>, <<"P", "E", "S", "T">>, <<"w", "a", "t", "e", "r">>,
          <<"c", "r", "o", "p">>, <<"r", "a", "i", "n">>, <<"h", "i", " ">>, <<"p">>, <<"h">>}
Queries == {a \o b : a \in Words, b \in Words}

Respond(q) ==
    /\ query' = q
    /\ answer' \in GetFallbackResponse(q)
    /\ UNCHANGED <<imgVars, chatVars>>

\* ------------------------------------------------------------ chat bounds
MaxSessions == 1
MaxChats == 2
MaxTurns == 2

Sids == 1..MaxSessions
ChatSlots == 1..MaxChats

\* Request bodies: message texts ("" is a missing message) and session ids
\* (0 is no sessionId).
Texts == {<<>>, <<"H", "i">>, <<"p", "H", " ", "b", "u", "g">>}
ProviderReply == "provider-text"

SessionStored(sid) == sid \in Sids /\ sessions[sid] # None
Session(sid) == Val(sessions[sid])

IdleChat == [pc |-> "idle", user |-> "-", sid |-> 0, text |-> <<>>, doc |-> None,
             reply |-> "", source |-> "", sent |-> <<>>]

NoChatResp == [op |-> "none", user |-> "-", sid |-> 0, code |-> 0, kind |-> "none",
               response |-> "", source |-> "", messageCount |-> 0]

FreeChat(c) ==
    chats[c].pc = "idle" /\ \A d \in ChatSlots : d < c => chats[d].pc # "idle"

UserMessage(text) == [role |-> "user", content |-> text, source |-> ""]
BotMessage(reply, source) == [role |-> "assistant", content |-> reply, source |-> source]

\* ChatSession.findById(sessionId): no owner in the query.
FindSession(u, sid) ==
    IF SessionStored(sid) THEN sessions[sid] ELSE None

\* The messages array handed to openai.chat.completions.create: the system
\* prompt, session.messages.slice(-10) taken after the user message was
\* pushed, and the user message.
HistoryCap == 10

SliceLast(msgs, n) ==
    SubSeq(msgs, IF Len(msgs) > n THEN Len(msgs) - n + 1 ELSE 1, Len(msgs))

SystemPrompt == [role |-> "system", content |-> "agricultural expert assistant"]

ProviderRequest(q) ==
    LET inMemory == Val(q.doc).messages \o <<UserMessage(q.text)>>
        recent == SliceLast(inMemory, HistoryCap)
    IN <<SystemPrompt>>
         \o [i \in 1..Len(recent) |-> [role |-> recent[i].role, content |-> recent[i].content]]
         \o <<[role |-> "user", content |-> q.text]>>

\* The handler once the session document is at hand: the user message is
\* pushed; with an API key the provider call is awaited, without one the
\* local reply is taken at once and the save is awaited.
AfterResolve_mut(q, replyChoice) == [q EXCEPT !.pc = "provider"]

AfterResolve(q, replyChoice) ==
    IF apiKey THEN [q EXCEPT !.pc = "provider", !.sent = ProviderRequest(q)]
    ELSE [q EXCEPT !.pc = "save", !.reply = replyChoice, !.source = "local"]

\* Whether a session may take one more turn, counting the turns under way.
Room(sid) ==
    Len(Session(sid).messages)
      + 2 * Cardinality({d \in ChatSlots : chats[d].pc # "idle" /\ chats[d].sid = sid})
      + 2 <= 2 * MaxTurns

Creating == Cardinality({d \in ChatSlots : chats[d].pc = "create"})

\* !message: the text is missing or the empty string.
MissingMessage_mut(text) == FALSE

MissingMessage(text) == text = <<>>

ChatStart(c, u, sidArg, text) ==
    /\ FreeChat(c)
    /\ UNCHANGED <<imgVars, fbVars, sessions, nextSid, apiKey>>
    /\ IF MissingMessage(text) THEN
            /\ chatResp' = [NoChatResp EXCEPT !.op = "chat", !.user = u, !.code = 400,
                                              !.kind = "validation"]
            /\ UNCHANGED <<chats, providerCalls>>
       ELSE LET found == IF sidArg = 0 THEN None ELSE FindSession(u, sidArg) IN
            /\ chatResp' = NoChatResp
            /\ IF found = None THEN
                    /\ nextSid + Creating <= MaxSessions
                    /\ chats' = [chats EXCEPT ![c] =
                                    [IdleChat EXCEPT !.pc = "create", !.user = u, !.text = text]]
                    /\ UNCHANGED providerCalls
               ELSE
                    /\ Room(sidArg)
                    /\ \E choice \in GetFallbackResponse(text) :
                          chats' = [chats EXCEPT ![c] =
                              AfterResolve([IdleChat EXCEPT !.user = u, !.sid = sidArg,
                                                            !.text = text, !.doc = found],
                                           choice)]
                    /\ providerCalls' = IF apiKey THEN providerCalls + 1 ELSE providerCalls

\* ChatSession.create({user, messages: []})
NewSession(u) == [user |-> u, title |-> None, messages |-> <<>>]

ChatCreate(c) ==
    /\ chats[c].pc = "create"
    /\ UNCHANGED <<imgVars, fbVars, apiKey>>
    /\ chatResp' = NoChatResp
    /\ sessions' = [sessions EXCEPT ![nextSid] = Some(NewSession(chats[c].user))]
    /\ nextSid' = nextSid + 1
    /\ \E choice \in GetFallbackResponse(chats[c].text) :
          chats' = [chats EXCEPT ![c] =
              AfterResolve([chats[c] EXCEPT !.sid = nextSid,
                                            !.doc = Some(NewSession(chats[c].user))],
                           choice)]
    /\ providerCalls' = IF apiKey THEN providerCalls + 1 ELSE providerCalls

ChatProviderSettles_mut(c, ok) ==
    /\ chats[c].pc = "provider"
    /\ UNCHANGED <<imgVars, fbVars, sessions, nextSid, providerCalls, apiKey>>
    /\ chatResp' = NoChatResp
    /\ IF ok THEN
            chats' = [chats EXCEPT ![c] = [chats[c] EXCEPT !.pc = "save",
                                                          !.reply = ProviderReply,
                                                          !.source = "openai"]]
       ELSE \E choice \in GetFallbackResponse(chats[c].text) :
            chats' = [chats EXCEPT ![c] = [chats[c] EXCEPT !.pc = "save",
                                                          !.reply = choice,
                                                          !.source = "openai"]]

\* openai.chat.completions.create settles: a completion, or it throws and
\* the catch block takes the local reply.
ChatProviderSettles(c, ok) ==
    /\ chats[c].pc = "provider"
    /\ UNCHANGED <<imgVars, fbVars, sessions, nextSid, providerCalls, apiKey>>
    /\ chatResp' = NoChatResp
    /\ IF ok THEN
            chats' = [chats EXCEPT ![c] = [chats[c] EXCEPT !.pc = "save",
                                                          !.reply = ProviderReply,
                                                          !.source = "openai"]]
       ELSE \E choice \in GetFallbackResponse(chats[c].text) :
            chats' = [chats EXCEPT ![c] = [chats[c] EXCEPT !.pc = "save",
                                                          !.reply = choice,
                                                          !.source = "local"]]

\* The messages the handler pushed on its in-memory session: the user
\* message before the reply is computed, the assistant message after it.
Pushed_mut(q) == <<UserMessage(q.text)>>

Pushed(q) == <<UserMessage(q.text), BotMessage(q.reply, q.source)>>

\* session.save(): the two pushed messages are appended to the stored array.
ChatSave_mut(c) ==
    /\ chats[c].pc = "save"
    /\ UNCHANGED <<imgVars, fbVars, nextSid, providerCalls, apiKey>>
    /\ chats' = [chats EXCEPT ![c] = IdleChat]
    /\ LET q == chats[c]
           pushed == Pushed(q)
       IN
       IF ~SessionStored(q.sid) THEN
            /\ chatResp' = [NoChatResp EXCEPT !.op = "chat", !.user = q.user,
                                              !.sid = q.sid, !.code = 500,
                                              !.kind = "store_error"]
            /\ UNCHANGED sessions
       ELSE
            /\ sessions' = [sessions EXCEPT ![q.sid] =
                               Some([Session(q.sid) EXCEPT !.messages = Val(q.doc).messages \o pushed])]
            /\ chatResp' = [op |-> "chat", user |-> q.user, sid |-> q.sid, code |-> 200,
                            kind |-> "replied", response |-> q.reply, source |-> q.source,
                            messageCount |-> Len(Val(q.doc).messages) + 2]

ChatSave(c) ==
    /\ chats[c].pc = "save"
    /\ UNCHANGED <<imgVars, fbVars, nextSid, providerCalls, apiKey>>
    /\ chats' = [chats EXCEPT ![c] = IdleChat]
    /\ LET q == chats[c]
           pushed == Pushed(q)
       IN
       IF ~SessionStored(q.sid) THEN
            /\ chatResp' = [NoChatResp EXCEPT !.op = "chat", !.user = q.user,
                                              !.sid = q.sid, !.code = 500,
                                              !.kind = "store_error"]
            /\ UNCHANGED sessions
       ELSE
            /\ sessions' = [sessions EXCEPT ![q.sid] =
                               Some([Session(q.sid) EXCEPT !.messages = @ \o pushed])]
            /\ chatResp' = [op |-> "chat", user |-> q.user, sid |-> q.sid, code |-> 200,
                            kind |-> "replied", response |-> q.reply, source |-> q.source,
                            messageCount |-> Len(Val(q.doc).messages) + 2]

\* ----------------------------------------------------- session routes
\* ChatSession.findOne({_id: sessionId, user: req.user._id})
FindOwnSession(u, sid) ==
    IF SessionStored(sid) /\ Session(sid).user = u THEN sessions[sid] ELSE None

SessionResp(op, u, sid, code, kind) ==
    [NoChatResp EXCEPT !.op = op, !.user = u, !.sid = sid, !.code = code, !.kind = kind]

\* GET /sessions/:sessionId
GetSession(u, sid) ==
    /\ UNCHANGED <<imgVars, fbVars, sessions, nextSid, chats, providerCalls, apiKey>>
    /\ LET session == FindOwnSession(u, sid) IN
       chatResp' = IF session = None
                   THEN SessionResp("get_session", u, sid, 404, "not_found")
                   ELSE [SessionResp("get_session", u, sid, 200, "session")
                            EXCEPT !.messageCount = Len(Val(session).messages)]

\* DELETE /sessions/:sessionId
DeleteSession_mut(u, sid) ==
    /\ UNCHANGED <<imgVars, fbVars, nextSid, chats, providerCalls, apiKey>>
    /\ LET session == FindSession(u, sid) IN
       IF session = None THEN
            /\ chatResp' = SessionResp("delete_session", u, sid, 404, "not_found")
            /\ UNCHANGED sessions
       ELSE /\ sessions' = [sessions EXCEPT ![sid] = None]
            /\ chatResp' = SessionResp("delete_session", u, sid, 200, "deleted")

DeleteSession(u, sid) ==
    /\ UNCHANGED <<imgVars, fbVars, nextSid, chats, providerCalls, apiKey>>
    /\ LET session == FindOwnSession(u, sid) IN
       IF session = None THEN
            /\ chatResp' = SessionResp("delete_session", u, sid, 404, "not_found")
            /\ UNCHANGED sessions
       ELSE /\ sessions' = [sessions EXCEPT ![sid] = None]
            /\ chatResp' = SessionResp("delete_session", u, sid, 200, "deleted")

\* PUT /sessions/:sessionId/title ("" is a missing title)
Titles == {"", "renamed"}

RenameSession(u, sid, title) ==
    /\ UNCHANGED <<imgVars, fbVars, nextSid, chats, providerCalls, apiKey>>
    /\ IF title = "" THEN
            /\ chatResp' = SessionResp("rename_session", u, sid, 400, "validation")
            /\ UNCHANGED sessions
       ELSE LET session == FindOwnSession(u, sid) IN
            IF session = None THEN
                 /\ chatResp' = SessionResp("rename_session", u, sid, 404, "not_found")
                 /\ UNCHANGED sessions
            ELSE /\ sessions' = [sessions EXCEPT ![sid] =
                                    Some([Session(sid) EXCEPT !.title = Some(title)])]
                 /\ chatResp' = SessionResp("rename_session", u, sid, 200, "renamed")

\* ------------------------------------------------------------ specification
InitImg ==
    /\ records = [id \in Ids |-> None]
    /\ files = {}
    /\ nextId = 1
    /\ model = None
    /\ modelLoading = FALSE
    /\ reqs = [r \in Slots |-> IdleReq]
    /\ classifierCalls = 0
    /\ resp = NoResp

InitChat ==
    /\ sessions = [sid \in Sids |-> None]
    /\ nextSid = 1
    /\ chats = [c \in ChatSlots |-> IdleChat]
    /\ providerCalls = 0
    /\ apiKey \in BOOLEAN
    /\ chatResp = NoChatResp

InitResponder == query = <<>> /\ answer = ""

Init == InitImg /\ InitChat /\ InitResponder

\* The analysis lifecycle: an upload, owner deletes and analyze requests
\* running in the slots S.  A handler touches only the document it loads, so
\* the lifecycle is followed for one record; requests on it still share the
\* model handle.
Tracked == {1}

Lifecycle(S) ==
    \/ \E u \in Users : nextId \in Tracked /\ Upload(u, "ok", Some(7), Some(7), TRUE, None)
    \/ \E r \in S, u \in Users, id \in Tracked : AnalyzeFind(r, u, id)
    \/ \E r \in S : AnalyzeSaveProcessing(r)
    \/ \E r \in S, ok \in BOOLEAN : LoadModelSettles(r, ok)
    \/ \E r \in S, ok \in BOOLEAN, score \in ScoreSamples : Predict(r, ok, score)
    \/ \E r \in S : AnalyzeSaveCompleted(r)
    \/ \E r \in S : AnalyzeSaveFailed(r)
    \/ \E u \in Users, id \in Tracked : Delete(u, id)

\* Overlapping requests.
Next == Lifecycle(Slots)

Spec == Init /\ [][Next]_vars

\* One request at a time: every analyze call ends before the next begins.
NextSeq == Lifecycle({1})

SpecSeq == Init /\ [][NextSeq]_vars

\* The owner-only routes together: the lifecycle one request at a time, and
\* shares.
NextOwner ==
    \/ Lifecycle({1})
    \/ \E u \in Users, id \in Ids, userIds \in SUBSET Users, makePublic \in BOOLEAN :
          Share(u, id, userIds, makePublic)

SpecOwner == Init /\ [][NextOwner]_vars

\* Shares and feedback overlapping the analysis lifecycle of one record of
\* u1, who shares it with u2; both may give feedback.
NextAux ==
    \/ nextId \in Tracked /\ Upload("u1", "ok", Some(7), Some(7), TRUE, None)
    \/ \E r \in Slots, id \in Tracked : AnalyzeFind(r, "u1", id)
    \/ \E r \in Slots : AnalyzeSaveProcessing(r)
    \/ \E r \in Slots, ok \in BOOLEAN : LoadModelSettles(r, ok)
    \/ \E r \in Slots, ok \in BOOLEAN, score \in ScoreSamples : Predict(r, ok, score)
    \/ \E r \in Slots : AnalyzeSaveCompleted(r)
    \/ \E r \in Slots : AnalyzeSaveFailed(r)
    \/ \E r \in Slots, id \in Tracked, userIds \in {{}, {"u2"}}, makePublic \in BOOLEAN :
          ShareFind(r, "u1", id, userIds, makePublic)
    \/ \E r \in Slots : ShareSave(r)
    \/ \E r \in Slots, u \in Users, id \in Tracked, rating \in Ratings :
          FeedbackFind(r, u, id, rating)
    \/ \E r \in Slots : FeedbackSave(r)

SpecAux == Init /\ [][NextAux]_vars

\* Uploads, reads and deletes, with the store answering or rejecting the
\* deleteOne.
NextDelete ==
    \/ \E u \in Users : Upload(u, "ok", Some(7), Some(7), TRUE, None)
    \/ \E u \in Users, id \in Ids : GetAnalysis(u, id)
    \/ \E u \in Users, id \in Ids : Delete(u, id)
    \/ \E u \in Users, id \in Ids : DeleteRejected(u, id)

SpecDelete == Init /\ [][NextDelete]_vars

\* Visibility: uploads, shares, reads and deletes.
NextAccess ==
    \/ \E u \in Users, kind \in UploadKinds : Upload(u, kind, Some(7), Some(7), TRUE, None)
    \/ \E u \in Users, id \in Ids : GetAnalysis(u, id)
    \/ \E u \in Users, id \in Ids, userIds \in SUBSET Users, makePublic \in BOOLEAN :
          Share(u, id, userIds, makePublic)
    \/ \E u \in Users, id \in Ids : Delete(u, id)

SpecAccess == Init /\ [][NextAccess]_vars

\* Uploads through either definition of the route, with every request body
\* and profile, and owner deletes.
NextUpload ==
    \/ \E u \in Users, kind \in UploadKinds, lat \in Coordinates, lng \in Coordinates,
          useProfile \in BOOLEAN, profile \in Profiles :
          Upload(u, kind, lat, lng, useProfile, profile)
    \/ \E u \in Users, kind \in UploadKinds, lat \in Coordinates, lng \in Coordinates :
          UploadSecond(u, kind, lat, lng)
    \/ \E u \in Users, id \in Ids : Delete(u, id)

SpecUpload == Init /\ [][NextUpload]_vars

\* The chat pipeline.
NextChat ==
    \/ \E c \in ChatSlots, u \in Users, sidArg \in 0..MaxSessions, text \in Texts :
          ChatStart(c, u, sidArg, text)
    \/ \E c \in ChatSlots : ChatCreate(c)
    \/ \E c \in ChatSlots, ok \in BOOLEAN : ChatProviderSettles(c, ok)
    \/ \E c \in ChatSlots : ChatSave(c)

SpecChat == Init /\ [][NextChat]_vars

\* The local responder, called on every query.
NextResponder == \E q \in Queries : Respond(q)

SpecResponder == Init /\ [][NextResponder]_vars

\* The session routes next to chat turns that all carry the same message.
Greeting == <<"H", "i">>

NextSessions ==
    \/ \E c \in ChatSlots, u \in Users, sidArg \in 0..MaxSessions :
          ChatStart(c, u, sidArg, Greeting)
    \/ \E c \in ChatSlots : ChatCreate(c)
    \/ \E c \in ChatSlots, ok \in BOOLEAN : ChatProviderSettles(c, ok)
    \/ \E c \in ChatSlots : ChatSave(c)
    \/ \E u \in Users, sid \in Sids : GetSession(u, sid)
    \/ \E u \in Users, sid \in Sids : DeleteSession(u, sid)
    \/ \E u \in Users, sid \in Sids, title \in Titles : RenameSession(u, sid, title)

SpecSessions == Init /\ [][NextSessions]_vars


\* Both pipelines under the scheduling the code relies on: a step that
\* awaits the store is eventually taken.  Nothing in the routes bounds the
\* wait for the model download, the prediction or the chat provider, so no
\* fairness is assumed for the steps in which those settle.
NextLive ==
    \/ Lifecycle({1})
    \/ \E c \in ChatSlots, sidArg \in 0..MaxSessions : ChatStart(c, "u1", sidArg, Greeting)
    \/ \E c \in ChatSlots : ChatCreate(c)
    \/ \E c \in ChatSlots, ok \in BOOLEAN : ChatProviderSettles(c, ok)
    \/ \E c \in ChatSlots : ChatSave(c)

StoreResponds ==
    /\ WF_vars(AnalyzeSaveProcessing(1))
    /\ WF_vars(AnalyzeSaveCompleted(1))
    /\ WF_vars(AnalyzeSaveFailed(1))
    /\ \A c \in ChatSlots : WF_vars(ChatCreate(c)) /\ WF_vars(ChatSave(c))

SpecLive == Init /\ [][NextLive]_vars /\ StoreResponds

\* ------------------------------------------------------------------ claims
Terminal == {"completed", "failed"}
NoneInFlight == \A r \in Slots : reqs[r].pc = "idle"
Owned(u, id) == Stored(id) /\ Rec(id).user = u

\* C1: an analyze call on a completed record answers 200 with the stored
\* document (the identical result), writes no field of any record, starts no
\* request and leaves the classifier call count as it was.
C1_CompletedIsIdempotent ==
    [][\A u \in Users, id \in Ids :
          (Owned(u, id) /\ Rec(id).status = "completed"
             /\ \E r \in Slots : AnalyzeFind(r, u, id))
          => /\ resp' = Resp("analyze", u, id, 200, "already_completed", records[id])
             /\ records' = records
             /\ reqs' = reqs
             /\ classifierCalls' = classifierCalls]_vars

C1_Witness ==
    /\ resp.kind = "already_completed"
    /\ Val(resp.body).analysis # None
    /\ classifierCalls >= 1

C3_ClassifierFailureIsStored ==
    [][\A r \in Slots :
          (reqs[r].pc = "save_failed" /\ AnalyzeSaveFailed(r))
          => /\ resp'.op = "analyze" /\ resp'.code = 500
             /\ reqs[r].err # None
             /\ Stored(reqs[r].id) =>
                   /\ Val(records'[reqs[r].id]).status = "failed"
                   /\ Val(records'[reqs[r].id]).errorMessage # None
                   /\ Rec(reqs[r].id).errorMessage = Val(reqs[r].doc).errorMessage
                         => Val(records'[reqs[r].id]).errorMessage = reqs[r].err]_vars

C3_Witness ==
    /\ resp.kind = "ai_failed"
    /\ Stored(resp.id)
    /\ Rec(resp.id).status = "failed"
    /\ Rec(resp.id).errorMessage = Some("AI model not available")

\* C4: no record is left in processing: a stored record has status
\* processing only while an analyze request on it is still under way.
C4_NeverStuckInProcessing ==
    \A id \in Ids :
        (Stored(id) /\ Rec(id).status = "processing")
        => \E r \in Slots : reqs[r].id = id
              /\ reqs[r].pc \in {"loading", "predict", "save_completed", "save_failed"}

C4_Witness ==
    /\ NoneInFlight
    /\ resp.kind = "ai_failed"
    /\ Stored(resp.id)
    /\ Rec(resp.id).status = "failed"
    /\ Rec(resp.id).errorMessage = Some("predict failed")

\* C5: result payload and error detail are never both present, and neither
\* is present while the status is pending.
C5_ResultErrorExclusive ==
    \A id \in Ids :
        Stored(id) =>
            /\ ~(Rec(id).analysis # None /\ Rec(id).errorMessage # None)
            /\ Rec(id).status = "pending" =>
                  (Rec(id).analysis = None /\ Rec(id).errorMessage = None)

\* C6: the result payload is present only when status = completed and the
\* error detail only when status = failed.
C6_PayloadMatchesStatus ==
    \A id \in Ids :
        Stored(id) =>
            /\ Rec(id).analysis # None => Rec(id).status = "completed"
            /\ Rec(id).errorMessage # None => Rec(id).status = "failed"

C8_ReadAccess ==
    resp.op = "get" =>
        /\ resp.code \in {200, 404}
        /\ resp.code = 200 <=>
              /\ Stored(resp.id)
              /\ \/ Rec(resp.id).user = resp.user
                 \/ resp.user \in Rec(resp.id).sharedWith
                 \/ Rec(resp.id).isPublic
        /\ resp.code = 200 => resp.body = records[resp.id]

C8_Witness ==
    /\ resp.op = "get" /\ resp.code = 404
    /\ Stored(resp.id)
    /\ Rec(resp.id).user # resp.user

\* C9: after a successful share request with makePublic set, with or without
\* user ids, the record is stored as public.
C9_MakePublicIsStored ==
    (resp.op = "share" /\ resp.code = 200 /\ resp.kind = "shared_public")
    => (Stored(resp.id) /\ Rec(resp.id).isPublic)

\* C10: a chat request that succeeds was served from a session the caller
\* owns: it neither appended to nor returned another user's session.
C10_ChatUsesOwnSession ==
    (chatResp.op = "chat" /\ chatResp.code = 200)
    => (SessionStored(chatResp.sid) /\ Session(chatResp.sid).user = chatResp.user)

\* C11: a successful chat request appends exactly its user message followed
\* by its assistant message to the stored session, in the one save that ends
\* the request; no other step of a chat request changes a stored session, so
\* every stored session is a sequence of whole user/assistant pairs.
WholeTurns(msgs) ==
    /\ Len(msgs) % 2 = 0
    /\ \A i \in 1..Len(msgs) :
          msgs[i].role = (IF i % 2 = 1 THEN "user" ELSE "assistant")

ChatSucceeds(c) == chats[c].pc = "save" /\ ChatSave(c) /\ chatResp'.code = 200

C11_TurnsAreAppendedWhole ==
    [][/\ \A sid \in Sids :
            sessions'[sid] # None => WholeTurns(Val(sessions'[sid]).messages)
       /\ \A c \in ChatSlots :
            ChatSucceeds(c) =>
               LET old == Session(chats[c].sid).messages
                   new == Val(sessions'[chats[c].sid]).messages
               IN /\ Len(new) = Len(old) + 2
                  /\ SubSeq(new, 1, Len(old)) = old
                  /\ new[Len(old) + 1] = UserMessage(chats[c].text)
                  /\ new[Len(old) + 2].role = "assistant"
                  /\ new[Len(old) + 2].content = chatResp'.response
       /\ (~ \E c \in ChatSlots : ChatSucceeds(c)) =>
            \A sid \in Sids : SessionStored(sid) => sessions'[sid] = sessions[sid]]_vars

C11_Witness ==
    /\ chatResp.op = "chat" /\ chatResp.code = 200
    /\ SessionStored(chatResp.sid)
    /\ Len(Session(chatResp.sid).messages) = 2 * MaxTurns
    /\ chatResp.messageCount < Len(Session(chatResp.sid).messages)

\* C12: when the provider call throws, the request goes on with a reply of
\* the local responder tagged local; the save that ends a chat request
\* answers 200 and stores the reply with its tag, and the tag is openai
\* exactly when the text is the provider's.
C12_ProviderFailureIsAbsorbed ==
    [][\A c \in ChatSlots :
          /\ (chats[c].pc = "provider" /\ chats'[c].source = "local")
             => /\ chats'[c].pc = "save"
                /\ chats'[c].reply \in GetFallbackResponse(chats[c].text)
          /\ (chats[c].pc = "provider" /\ chats'[c] # chats[c])
             => (chats'[c].source = "openai" <=> chats'[c].reply = ProviderReply)
          /\ (chats[c].pc = "save" /\ ChatSave(c))
             => /\ chatResp'.op = "chat" /\ chatResp'.code = 200
                /\ chatResp'.source = chats[c].source
                /\ chatResp'.response = chats[c].reply
                /\ (chatResp'.source = "openai" <=> chatResp'.response = ProviderReply)
                /\ LET msgs == Val(sessions'[chats[c].sid]).messages
                   IN msgs[Len(msgs)] = BotMessage(chats[c].reply, chats[c].source)]_vars

C12_Witness ==
    /\ apiKey
    /\ chatResp.op = "chat" /\ chatResp.code = 200
    /\ chatResp.source = "local"
    /\ chatResp.response = "soil_health#2"
    /\ SessionStored(chatResp.sid)
    /\ Session(chatResp.sid).messages[Len(Session(chatResp.sid).messages)].source = "local"

\* C13: without an API key the provider is never called and no request
\* waits for it; a chat request that succeeds is tagged local, and its reply
\* is one of the strings the local responder can return for the message it
\* stored.
C13_NoKeyMeansLocal ==
    ~ apiKey =>
       /\ providerCalls = 0
       /\ \A c \in ChatSlots : chats[c].pc # "provider" /\ chats[c].source # "openai"
       /\ (chatResp.op = "chat" /\ chatResp.code = 200) =>
             LET msgs == Session(chatResp.sid).messages
             IN /\ chatResp.source = "local"
                /\ msgs[Len(msgs)] = BotMessage(chatResp.response, "local")
                /\ msgs[Len(msgs) - 1].role = "user"
                /\ chatResp.response \in GetFallbackResponse(msgs[Len(msgs) - 1].content)

C13_Witness ==
    /\ ~ apiKey
    /\ chatResp.op = "chat" /\ chatResp.code = 200
    /\ chatResp.response = "soil_health#3"
    /\ Len(Session(chatResp.sid).messages) = 4
    /\ Session(chatResp.sid).messages[2].content = DefaultFallback

\* C14: the local responder answers with a response of the first category,
\* in the order soil_health, pest_control, water_management, crop_selection,
\* weather_climate, that has a keyword occurring in the lower-cased query,
\* and with the default response exactly when no category has one; a query
\* with a soil keyword and a pest keyword is answered from soil_health.
CategoryOrder ==
    <<"soil_health", "pest_control", "water_management", "crop_selection",
      "weather_climate">>

Hits(c, text) ==
    \E k \in {AGRICULTURAL_KNOWLEDGE[c].keywords[n] :
                 n \in 1..Len(AGRICULTURAL_KNOWLEDGE[c].keywords)} :
        Includes(ToLowerCase(text), k)

Candidates(c) ==
    {AGRICULTURAL_KNOWLEDGE[c].responses[n] :
        n \in 1..Len(AGRICULTURAL_KNOWLEDGE[c].responses)}

C14_FirstMatchingCategory ==
    answer # "" =>
       /\ [c \in 1..Len(AGRICULTURAL_KNOWLEDGE) |-> AGRICULTURAL_KNOWLEDGE[c].category]
             = CategoryOrder
       /\ \A c \in 1..Len(CategoryOrder) :
             (Hits(c, query) /\ \A d \in 1..(c - 1) : ~ Hits(d, query))
                => answer \in Candidates(c)
       /\ (answer = DefaultFallback) <=> (\A c \in 1..Len(CategoryOrder) : ~ Hits(c, query))
       /\ (Hits(1, query) /\ Hits(2, query)) => answer \in Candidates(1)
       /\ query = <<"P", "E", "S", "T", "S", "o", "i", "l">>
             => answer \in {"soil_health#1", "soil_health#2", "soil_health#3",
                            "soil_health#4"}
       /\ query = <<"c", "r", "o", "p", "h">> => answer \in Candidates(1)
       /\ query = <<"r", "a", "i", "n", "w", "a", "t", "e", "r">> => answer \in Candidates(3)

C14_Witness ==
    /\ query = <<"P", "E", "S", "T", "S", "o", "i", "l">>
    /\ answer = "soil_health#4"

\* C15: a delete by the owner answers 200 and removes the record and its
\* file; from then on the id stays without record and file, and a fetch of
\* it by any user answers 404.
Deleted(id) == id < nextId /\ ~ Stored(id)

C15_DeletedStaysGone ==
    [][\A id \in Ids :
          /\ (\E u \in Users : Owned(u, id) /\ Delete(u, id))
             => /\ resp'.op = "delete" /\ resp'.code = 200
                /\ records'[id] = None
                /\ id \notin files'
          /\ Deleted(id)
             => /\ records'[id] = None
                /\ id \notin files'
                /\ \A u \in Users : GetAnalysis(u, id) => resp'.code = 404]_vars

C15_Witness ==
    /\ resp.op = "get" /\ resp.code = 404
    /\ Deleted(resp.id)
    /\ resp.id \notin files

\* C16: analyze, delete and share requested by a user who does not own the
\* record (a listed viewer and a user of a public record included), or for
\* an id without record, answer 404, start no request, and leave the
\* records, the files and the classifier call count as they were.
OwnerOnlyRequest(u, id) ==
    \/ \E r \in Slots : AnalyzeFind(r, u, id)
    \/ Delete(u, id)
    \/ \E userIds \in SUBSET Users, makePublic \in BOOLEAN : Share(u, id, userIds, makePublic)

C16_OwnerOnlyMutations ==
    [][\A u \in Users, id \in Ids :
          (~ Owned(u, id) /\ OwnerOnlyRequest(u, id))
          => /\ resp'.code = 404 /\ resp'.user = u /\ resp'.id = id
             /\ records' = records
             /\ files' = files
             /\ classifierCalls' = classifierCalls
             /\ reqs' = reqs]_vars

C16_Witness ==
    /\ resp.op = "analyze" /\ resp.code = 404
    /\ Stored(resp.id)
    /\ resp.user \in Rec(resp.id).sharedWith
    /\ Rec(resp.id).isPublic
    /\ Rec(resp.id).status = "pending"

\* C17: a failed upload leaves no trace: whatever uploads failed, every
\* stored record has its file and every file on disk belongs to a stored
\* record.
C17_FailedUploadLeavesNoTrace ==
    /\ \A id \in Ids : Stored(id) <=> id \in files
    /\ (resp.op = "upload" /\ resp.code # 200) => resp.id = 0

\* C18: an upload with a file that is stored and with the profile location
\* left switched on succeeds and creates a pending record whose location is
\* the request's coordinates when both are given, else the profile's
\* location when the profile has one with a non-zero longitude, else none.
ThreeTier(lat, lng, profile) ==
    IF lat # None /\ lng # None THEN <<lat, lng>>
    ELSE IF profile # None /\ Val(profile)[1] # 0
         THEN <<Some(Val(profile)[2]), Some(Val(profile)[1])>>
         ELSE <<None, None>>

C18_LocationByPriority ==
    [][\A u \in Users, lat \in Coordinates, lng \in Coordinates, profile \in Profiles :
          (nextId <= MaxRecords /\ Upload(u, "ok", lat, lng, TRUE, profile))
          => /\ resp'.code = 200
             /\ records'[nextId] # None
             /\ Val(records'[nextId]).status = "pending"
             /\ Val(records'[nextId]).location = ThreeTier(lat, lng, profile)]_vars

\* C19: get, delete and rename of a session that does not exist or belongs
\* to another user answer 404 and leave every stored session as it was (a
\* rename is asked with a title).
SessionRequest(u, sid) ==
    \/ GetSession(u, sid)
    \/ DeleteSession(u, sid)
    \/ RenameSession(u, sid, "renamed")

OwnsSession(u, sid) == SessionStored(sid) /\ Session(sid).user = u

C19_ForeignSessionIsNotFound ==
    [][\A u \in Users, sid \in Sids :
          (~ OwnsSession(u, sid) /\ SessionRequest(u, sid))
          => /\ chatResp'.code = 404
             /\ chatResp'.user = u /\ chatResp'.sid = sid
             /\ sessions' = sessions]_vars

C19_Witness ==
    /\ chatResp.op \in {"delete_session", "rename_session"}
    /\ chatResp.code = 404
    /\ SessionStored(chatResp.sid)
    /\ Session(chatResp.sid).user # chatResp.user
    /\ Len(Session(chatResp.sid).messages) = 2 * MaxTurns

\* C20: a chat request without message text answers 400 at once: it starts
\* nothing, creates and changes no session, and the provider is not called.
C20_EmptyMessageIsRejected ==
    [][\A c \in ChatSlots, u \in Users, sidArg \in 0..MaxSessions :
          ChatStart(c, u, sidArg, <<>>)
          => /\ chatResp'.op = "chat" /\ chatResp'.code = 400
             /\ sessions' = sessions
             /\ nextSid' = nextSid
             /\ chats' = chats
             /\ providerCalls' = providerCalls]_vars

C20_Witness ==
    /\ chatResp.op = "chat" /\ chatResp.code = 400
    /\ apiKey
    /\ \E sid \in Sids : SessionStored(sid) /\ Session(sid).messages # <<>>

\* C21: no request waits forever for an external capability: an analyze
\* request waiting for the model or the prediction eventually ends, and a
\* chat request waiting for the provider eventually ends.
C21_NoRequestBlocksForever ==
    /\ \A r \in Slots : (reqs[r].pc \in {"loading", "predict"}) ~> (reqs[r].pc = "idle")
    /\ \A c \in ChatSlots : (chats[c].pc = "provider") ~> (chats[c].pc = "idle")

\* C22: an analyze request that loads the model while a load is in progress
\* waits for the model: it does not go on to store failed, and no analyze
\* request fails with the message that the model is not available.
C22_LoadInProgressIsAwaited ==
    /\ \A r \in Slots : reqs[r].err # Some("AI model not available")
    /\ resp.kind = "ai_failed" =>
          Val(resp.body).errorMessage # Some("AI model not available")

\* C23: at most one request is awaiting tf.loadLayersModel at any time, none
\* is while the model handle is set, and a handle that is set is never
\* replaced or dropped.
Loading == {r \in Slots : reqs[r].pc = "loading"}

C23_ModelLoadedOnce ==
    [][/\ Cardinality(Loading) <= 1
       /\ model # None => (Loading = {} /\ model' = model)
       /\ \A r \in Slots :
             (reqs[r].pc # "loading" /\ reqs'[r].pc = "loading")
                => (Loading = {} /\ model = None)]_vars

C23_Witness ==
    /\ model # None
    /\ classifierCalls = MaxCalls
    /\ \E r \in Slots : reqs[r].pc = "predict"
    /\ \E r \in Slots : reqs[r].pc = "save_failed"
                           /\ reqs[r].err = Some("AI model not available")

\* C29: modelLoading is true exactly while a request awaits the load; the
\* step in which the load settles, with the model or with an error, resets
\* it, and an analyze request that calls loadModel with no model and no load
\* in progress, also after a failed load, starts a load.
C29_LoadingFlagIsReset ==
    [][/\ modelLoading <=> (Loading # {})
       /\ \A r \in Slots :
             /\ (reqs[r].pc = "loading" /\ reqs'[r].pc # "loading") => ~ modelLoading'
             /\ (Inflight(r, "save_processing") /\ Stored(reqs[r].id)
                   /\ model = None /\ Loading = {} /\ AnalyzeSaveProcessing(r))
                => (reqs'[r].pc = "loading" /\ modelLoading')]_vars

C29_Witness ==
    /\ modelLoading
    /\ model = None
    /\ \E r \in Slots :
          /\ reqs[r].pc = "loading"
          /\ Val(reqs[r].doc).errorMessage = Some("load failed")

\* C24: overlapping analyze requests on one record are not serialized and
\* the last save wins: a request on a record that is not completed is
\* started whatever else is in flight, each request that stores processing
\* calls the classifier, and the save that ends a request stores its own
\* status, failed or completed, over whatever status is stored.
C24_LastWriteWins ==
    [][\A r \in Slots :
          /\ \A u \in Users, id \in Ids :
                (Owned(u, id) /\ Rec(id).status # "completed" /\ AnalyzeFind(r, u, id))
                   => reqs'[r].pc = "save_processing"
          /\ (Inflight(r, "save_processing") /\ Stored(reqs[r].id) /\ AnalyzeSaveProcessing(r))
                => classifierCalls' = classifierCalls + 1
          /\ (Inflight(r, "save_failed") /\ Stored(reqs[r].id) /\ AnalyzeSaveFailed(r))
                => Val(records'[reqs[r].id]).status = "failed"
          /\ (Inflight(r, "save_completed") /\ Stored(reqs[r].id) /\ AnalyzeSaveCompleted(r))
                => Val(records'[reqs[r].id]).status = "completed"]_vars

C24_Witness ==
    /\ resp.kind = "ai_failed"
    /\ Stored(resp.id)
    /\ Rec(resp.id).status = "failed"
    /\ Rec(resp.id).analysis # None
    /\ classifierCalls >= 2

\* C25 (as claimed): the classifier is invoked only in a step that leaves
\* the stored status processing, the stored status changes to completed or
\* failed only from processing, and processingTime is written only in a step
\* that stores completed.
StatusStep(id, from, to) ==
    /\ Stored(id) /\ records'[id] # None
    /\ Rec(id).status = from
    /\ Val(records'[id]).status = to

C25_StatusFollowsStateMachine ==
    [][\A id \in Ids :
          (Stored(id) /\ records'[id] # None) =>
             /\ classifierCalls' # classifierCalls
                   => Val(records'[id]).status = "processing"
             /\ \A from \in {"pending", "completed", "failed"}, to \in Terminal :
                   from # to => ~ StatusStep(id, from, to)
             /\ Val(records'[id]).processingTime # Rec(id).processingTime
                   => Val(records'[id]).status = "completed"]_vars

\* C25 (amended): every request sets processing on its document and saves it
\* before the classifier is invoked, and ends by saving completed or failed
\* from a document in processing; the stored status never goes from pending
\* straight to completed or failed, and processingTime is written only by a
\* save that stores completed.  The stored status itself is processing at
\* those steps when no overlapping request has written it since this
\* request loaded or last saved the document.
InSync(r) == Stored(reqs[r].id) /\ Rec(reqs[r].id).status = Val(reqs[r].doc).status

C25_RequestFollowsStateMachine ==
    [][/\ \A id \in Ids :
             (Stored(id) /\ records'[id] # None) =>
                /\ \A to \in Terminal : ~ StatusStep(id, "pending", to)
                /\ Val(records'[id]).processingTime # Rec(id).processingTime
                      => Val(records'[id]).status = "completed"
       /\ \A r \in Slots :
             /\ (Inflight(r, "save_processing") /\ classifierCalls' # classifierCalls
                    /\ AnalyzeSaveProcessing(r))
                => /\ Val(reqs'[r].doc).status = "processing"
                   /\ Val(records'[reqs[r].id]).status
                         \in {"processing", "completed", "failed"}
                   /\ InSync(r) => Val(records'[reqs[r].id]).status = "processing"
             /\ (reqs[r].pc \in {"save_completed", "save_failed"} /\ reqs'[r].pc = "idle"
                    /\ Stored(reqs[r].id))
                => /\ Val(reqs[r].doc).status = "processing"
                   /\ Val(records'[reqs[r].id]).status \in Terminal
                   /\ InSync(r) => Rec(reqs[r].id).status = "processing"]_vars

C25_Witness ==
    /\ resp.kind = "analyzed"
    /\ Stored(resp.id)
    /\ Rec(resp.id).status = "completed"
    /\ Rec(resp.id).processingTime = Some(ElapsedSample)
    /\ Rec(resp.id).errorMessage = None
    /\ classifierCalls = 1

\* C26: the request a chat turn sends to the provider is the system
\* instruction, then the last messages (at most 10) the session had stored
\* when the turn loaded it, in their order, then the new user message once,
\* as the final entry.
Smaller(a, b) == IF a < b THEN a ELSE b

C26_ProviderRequestShape ==
    \A c \in ChatSlots :
        chats[c].pc = "provider" =>
           LET persisted == Val(chats[c].doc).messages
               kept == Smaller(Len(persisted), 10)
               sent == chats[c].sent
           IN /\ Len(sent) = kept + 2
              /\ sent[1].role = "system"
              /\ \A i \in 1..kept :
                    /\ sent[1 + i].role = persisted[Len(persisted) - kept + i].role
                    /\ sent[1 + i].content = persisted[Len(persisted) - kept + i].content
              /\ sent[Len(sent)].role = "user"
              /\ sent[Len(sent)].content = chats[c].text

\* C27: the stored messages of a session are append-only: in every step
\* that keeps the session, a chat turn and a rename included, the messages
\* stored before are an unchanged prefix of the messages stored after.
IsPrefix(a, b) == Len(a) <= Len(b) /\ SubSeq(b, 1, Len(a)) = a

C27_MessagesAreAppendOnly ==
    [][\A sid \in Sids :
          (SessionStored(sid) /\ sessions'[sid] # None)
          => /\ IsPrefix(Session(sid).messages, Val(sessions'[sid]).messages)
             /\ (\E u \in Users : RenameSession(u, sid, "renamed"))
                   => Val(sessions'[sid]).messages = Session(sid).messages]_vars

C27_Witness ==
    /\ chatResp.op = "chat" /\ chatResp.code = 200
    /\ SessionStored(chatResp.sid)
    /\ Session(chatResp.sid).title = Some("renamed")
    /\ chatResp.messageCount < Len(Session(chatResp.sid).messages)

\* C28: no step of a share or feedback request, its save included, changes
\* the status, the analysis payload or the error message of a record,
\* whatever the status is and whatever analyze requests are in flight.
AuxStep ==
    \/ \E r \in Slots : Inflight(r, "share_save") /\ ShareSave(r)
    \/ \E r \in Slots : Inflight(r, "feedback_save") /\ FeedbackSave(r)
    \/ resp'.op \in {"share", "feedback"}

C28_AuxLeavesStatusAlone ==
    [][AuxStep =>
          \A id \in Ids :
              Stored(id) =>
                 /\ records'[id] # None
                 /\ Val(records'[id]).status = Rec(id).status
                 /\ Val(records'[id]).analysis = Rec(id).analysis
                 /\ Val(records'[id]).errorMessage = Rec(id).errorMessage]_vars

C28_Witness ==
    /\ resp.op = "feedback" /\ resp.code = 200 /\ resp.user = "u2"
    /\ Stored(resp.id)
    /\ Rec(resp.id).feedback # None
    /\ Rec(resp.id).isPublic
    /\ Rec(resp.id).status = "processing"
    /\ \E r \in Slots : reqs[r].pc = "predict"

\* C30: a file is removed only together with its record: every stored
\* record has its original file.
C30_StoredRecordHasItsFile ==
    \A id \in Ids : Stored(id) => Rec(id).path \in files

====
